---- MODULE Spec2Model ----
(***************************************************************************)
(* Model of the saga engine of saga.go: step registration (AddStep), the   *)
(* forward loop of Play/execStep, the unwind of abort/compensateStep, the  *)
(* reflective dispatch helpers (getFuncValue, isReturnError, addParams)    *)
(* and the panics of checkErr.  Play is followed statement by statement:   *)
(* every log append and every reflective call is one step of the machine.  *)
(* Indices are 0-based as in the Go code; element i of a Go slice is       *)
(* element i+1 of the TLA+ sequence that models it.                        *)
(***************************************************************************)
EXTENDS Integers, Sequences, FiniteSets, TLC

\* ---------------------------------------------------------------- bounds
MaxSteps == 3
MaxPlays == 2

\* ------------------------------------------------------- values and funcs
\* A reflect.Value: its kind and its content.
ErrV(e) == [t |-> "error", v |-> e]
StrV(s) == [t |-> "string", v |-> s]
IntV(n) == [t |-> "int", v |-> n]
CtxV == [t |-> "ctx", v |-> "ctx"]

\* An object handed over as Step.Func / Step.CompensateFunc: its reflect kind,
\* its number of parameters, whether parameter 0 is context.Context, and the
\* values a call of it returns.
Obj(kind, numIn, ctxFirst, ret) ==
    [kind |-> kind, numIn |-> numIn, ctxFirst |-> ctxFirst, ret |-> ret]

\* The mock funcs of the test file and the objects TestAddStep registers.
fOk == Obj("func", 1, TRUE, <<ErrV("nil")>>)
fFail == Obj("func", 1, TRUE, <<ErrV("hello")>>)
fValOk == Obj("func", 1, TRUE, <<StrV("world"), ErrV("nil")>>)
f1 == Obj("func", 1, TRUE, <<StrV("hello"), ErrV("some error")>>)
f2 == Obj("func", 2, TRUE, <<ErrV("nil")>>)
errCompensate == Obj("func", 1, TRUE, <<ErrV("compensate error")>>)
notFuncString == Obj("string", 0, FALSE, <<>>)
notFuncInt == Obj("int", 0, FALSE, <<>>)
fNoParams == Obj("func", 0, FALSE, <<>>)
fNoReturn == Obj("func", 1, TRUE, <<>>)
fIntReturn == Obj("func", 1, TRUE, <<IntV("10")>>)

MkStep(name, f, c) == [Name |-> name, Func |-> f, CompensateFunc |-> c]

\* The steps a caller may hand to AddStep.
StepChoices ==
    { MkStep("ok", fOk, fOk),
      MkStep("fail", fFail, fOk),
      MkStep("okCompErr", fOk, errCompensate),
      MkStep("failCompErr", fFail, errCompensate),
      MkStep("okVal", fValOk, f2),
      MkStep("failVal", f1, f2),
      MkStep("mismatch", fValOk, fOk),
      MkStep("badFunc", notFuncString, fOk),
      MkStep("badComp", fOk, notFuncInt),
      MkStep("noCtx", fNoParams, fOk),
      MkStep("noCtxComp", fOk, fNoParams),
      MkStep("noReturn", fNoReturn, fOk),
      MkStep("intReturn", fIntReturn, fOk) }

\* ------------------------------------------------------------ log events
LogTypeStartSaga == "StartSaga"
LogTypeSagaStepExec == "SagaStepExec"
LogTypeSagaStepCompensate == "SagaStepCompensate"
LogTypeSagaAbort == "SagaAbort"
LogTypeSagaComplete == "SagaComplete"

\* A Log record; the optional *int / *string fields are sequences of length
\* 0 (nil) or 1.
Log(type, stepNumber, stepName) ==
    [Type |-> type, StepNumber |-> stepNumber, StepName |-> stepName]

\* ----------------------------------------------------------------- state
VARIABLES
    steps,                   \* saga.steps
    toCompensate,            \* saga.toCompensate
    returnedValuesFromFunc,  \* saga.returnedValuesFromFunc
    aborted,                 \* saga.aborted
    err,                     \* saga.err ("nil" when unset)
    logs,                    \* the events the log store holds for ExecutionID
    pc,                      \* position of the caller / of Play
    i,                       \* loop variable of Play
    j,                       \* loop variable of abort
    result,                  \* <<>> or << Result returned by the last Play >>
    panicMsg,                \* message of the panic that ended Play, or ""
    appendFailed,            \* the log store has returned an error
    plays,                   \* number of Play calls started
    fwdCalls,                \* forward actions invoked: step index, returned values
    compCalls                \* compensating actions invoked: record index, params

vars == <<steps, toCompensate, returnedValuesFromFunc, aborted, err, logs, pc,
          i, j, result, panicMsg, appendFailed, plays, fwdCalls, compCalls>>

storeVars == <<logs, appendFailed>>

sagaVars == <<toCompensate, returnedValuesFromFunc, aborted, err>>

\* NewSaga: an empty saga; nothing played yet.
Init ==
    /\ steps = <<>>
    /\ toCompensate = <<>>
    /\ returnedValuesFromFunc = <<>>
    /\ aborted = FALSE
    /\ err = "nil"
    /\ logs = <<>>
    /\ pc = "idle"
    /\ i = 0
    /\ j = 0
    /\ result = <<>>
    /\ panicMsg = ""
    /\ appendFailed = FALSE
    /\ plays = 0
    /\ fwdCalls = <<>>
    /\ compCalls = <<>>

\* ------------------------------------------------------ pure helpers
Last(s) == s[Len(s)]

\* reflect.Value.IsNil panics on a kind that cannot be nil.
IsNilPanics(val) == val.t \notin {"error"}

\* isReturnError panics when the last returned value is of a non-nilable kind.
isReturnErrorPanics(res) == Len(res) > 0 /\ IsNilPanics(Last(res))

\* isReturnError looking at the first returned value instead of the last.
isReturnErrorFirst(res) ==
    IF Len(res) > 0 /\ res[1].v # "nil" THEN res[1].v ELSE "nil"

\* isReturnError: the trailing value when it is a non-nil error, else nil.
isReturnError(res) ==
    IF Len(res) > 0 /\ Last(res).v # "nil" THEN Last(res).v ELSE "nil"

\* addParams: every returned value but the last, appended to values.
addParams(values, returned) ==
    IF Len(returned) > 1
    THEN values \o SubSeq(returned, 1, Len(returned) - 1)
    ELSE values

\* getFuncValue: the message checkErr panics with, or "" when obj passes.
getFuncValue(obj) ==
    IF obj.kind # "func" THEN "registered object must be a func"
    ELSE IF obj.numIn < 1 \/ ~obj.ctxFirst THEN "first argument must use context.ctx"
    ELSE ""

\* reflect.Value.Call panics unless it gets exactly the func's parameters.
CallPanics(f, params) == Len(params) # f.numIn

\* reflect.Value.Call: the values the func returns.
Call(f, params) == f.ret

\* ------------------------------------------------------------ log store
LogStoreError == "append log failed"

\* The errors Store.AppendLog may return.
AppendLogErrors == {"nil", LogStoreError}

\* Store.AppendLog returning e: on success the event is recorded after the
\* earlier ones of the execution identifier, on failure nothing is recorded.
AppendLog(ev, e) ==
    /\ logs' = IF e = "nil" THEN Append(logs, ev) ELSE logs
    /\ appendFailed' = (appendFailed \/ e # "nil")

\* checkErr that lets a non-nil error pass.
checkErrIgnores(e) == FALSE

\* checkErr(e) panics exactly when e is not nil.
checkErr(e) == e # "nil"

\* checkErr on a non-nil error, and a Go runtime panic: Play unwinds to its
\* caller without returning a Result.
Panic(msg) == pc' = "panicked" /\ panicMsg' = msg

\* The events Play, execStep, abort and compensateStep hand to AppendLog.
StartSagaEvent == Log(LogTypeStartSaga, <<>>, <<>>)

SagaCompleteEvent == Log(LogTypeSagaComplete, <<>>, <<>>)

\* The StepExec event naming the first registered step.
StepExecEventFirstName(k) == Log(LogTypeSagaStepExec, <<k>>, <<steps[1].Name>>)

\* The StepExec event with a 1-based step number.
StepExecEventOneBased(k) ==
    Log(LogTypeSagaStepExec, <<k + 1>>, <<steps[k + 1].Name>>)

StepExecEvent(k) == Log(LogTypeSagaStepExec, <<k>>, <<steps[k + 1].Name>>)

\* The SagaAbort event carrying the index of the failing step.
SagaAbortEventIndex(stepsToCompensate) ==
    Log(LogTypeSagaAbort, <<stepsToCompensate - 1>>, <<>>)

SagaAbortEvent(stepsToCompensate) ==
    Log(LogTypeSagaAbort, <<stepsToCompensate>>, <<>>)

\* The StepCompensate event with a 1-based step number.
StepCompensateEventOneBased(k) ==
    Log(LogTypeSagaStepCompensate, <<k + 1>>, <<steps[k + 1].Name>>)

StepCompensateEvent(k) ==
    Log(LogTypeSagaStepCompensate, <<k>>, <<steps[k + 1].Name>>)

\* compensateStep passing the values of the most recent record.
CompensateParamsLast(k) ==
    addParams(<<CtxV>>, returnedValuesFromFunc[Len(returnedValuesFromFunc)])

\* compensateStep(k): the context, then the values recorded for record k.
CompensateParams(k) == addParams(<<CtxV>>, returnedValuesFromFunc[k + 1])

\* ---------------------------------------------------------------- actions
\* AddStep: the step is appended, unchecked.
AddStepBody(step) == steps' = Append(steps, step)

AddStep(step) ==
    /\ pc = "idle"
    /\ Len(steps) < MaxSteps
    /\ AddStepBody(step)
    /\ UNCHANGED <<toCompensate, returnedValuesFromFunc, aborted, err, storeVars,
                   pc, i, j, result, panicMsg, plays, fwdCalls, compCalls>>

\* Play, up to the loop: the StartSaga event.
PlayStart ==
    /\ pc \in {"idle", "done"}
    /\ plays < MaxPlays
    /\ plays' = plays + 1
    /\ result' = <<>>
    /\ \E e \in AppendLogErrors :
         /\ AppendLog(StartSagaEvent, e)
         /\ IF checkErr(e)
            THEN /\ Panic(e)
                 /\ UNCHANGED i
            ELSE /\ i' = 0
                 /\ pc' = "loop"
                 /\ UNCHANGED panicMsg
    /\ UNCHANGED <<steps, sagaVars, j, fwdCalls, compCalls>>

\* execStep(i) on an aborted saga returns at once; Play moves to i+1.
ExecStepAborted ==
    /\ pc = "loop"
    /\ i < Len(steps)
    /\ aborted
    /\ i' = i + 1
    /\ UNCHANGED <<steps, sagaVars, storeVars, pc, j, result, panicMsg, plays,
                   fwdCalls, compCalls>>

\* execStep without its check of the aborted flag.
ExecStepRunsAlways == TRUE

\* The guard under which execStep(i) goes on to run step i.
ExecStepRuns == ~aborted

\* execStep(i), first half: the StepExec event of step i.
ExecStepLog ==
    /\ pc = "loop"
    /\ i < Len(steps)
    /\ ExecStepRuns
    /\ \E e \in AppendLogErrors :
         /\ AppendLog(StepExecEvent(i), e)
         /\ IF checkErr(e)
            THEN Panic(e)
            ELSE /\ pc' = "call"
                 /\ UNCHANGED panicMsg
    /\ UNCHANGED <<steps, sagaVars, i, j, result, plays, fwdCalls, compCalls>>

\* execStep binding the forward action along with the compensating action.
BindCompensateBoth(f, compensate) == toCompensate \o <<f, compensate>>

\* execStep binding the forward action in place of the compensating action.
BindCompensateForward(f, compensate) == Append(toCompensate, f)

\* execStep: the compensating action of the step is bound.
BindCompensate(f, compensate) == Append(toCompensate, compensate)

\* execStep recording the returned values of a succeeding step only.
RecordReturnedOnSuccess(resp) ==
    IF isReturnError(resp) # "nil"
    THEN returnedValuesFromFunc
    ELSE Append(returnedValuesFromFunc, resp)

\* execStep: the returned values of the step are recorded.
RecordReturned(resp) == Append(returnedValuesFromFunc, resp)

\* execStep(i), second half: the forward action is checked and called, the
\* compensating action is checked and bound, the returned values are recorded
\* and a returned error starts the abort.
ExecStepCall ==
    /\ pc = "call"
    /\ LET f == steps[i + 1].Func
           compensate == steps[i + 1].CompensateFunc
           params == <<CtxV>>
           resp == Call(f, params)
       IN IF getFuncValue(f) # ""
          THEN /\ Panic(getFuncValue(f))
               /\ UNCHANGED <<sagaVars, i, fwdCalls>>
          ELSE IF CallPanics(f, params)
          THEN /\ Panic("reflect: Call with wrong number of input arguments")
               /\ UNCHANGED <<sagaVars, i, fwdCalls>>
          ELSE /\ fwdCalls' = Append(fwdCalls, [step |-> i, ret |-> resp])
               /\ IF getFuncValue(compensate) # ""
                  THEN /\ Panic(getFuncValue(compensate))
                       /\ UNCHANGED <<sagaVars, i>>
                  ELSE /\ toCompensate' = BindCompensate(f, compensate)
                       /\ returnedValuesFromFunc' = RecordReturned(resp)
                       /\ UNCHANGED aborted
                       /\ IF isReturnErrorPanics(resp)
                          THEN /\ Panic("reflect: call of reflect.Value.IsNil")
                               /\ UNCHANGED <<err, i>>
                          ELSE IF isReturnError(resp) # "nil"
                          THEN /\ err' = isReturnError(resp)
                               /\ pc' = "abort"
                               /\ UNCHANGED <<i, panicMsg>>
                          ELSE /\ pc' = "loop"
                               /\ i' = i + 1
                               /\ UNCHANGED <<err, panicMsg>>
    /\ UNCHANGED <<steps, storeVars, j, result, plays, compCalls>>

\* abort, up to its loop: the SagaAbort event carries the number of bound
\* compensating actions; the saga is marked aborted.
Abort ==
    /\ pc = "abort"
    /\ LET stepsToCompensate == Len(toCompensate)
       IN \E e \in AppendLogErrors :
            /\ AppendLog(SagaAbortEvent(stepsToCompensate), e)
            /\ IF checkErr(e)
               THEN /\ Panic(e)
                    /\ UNCHANGED <<aborted, j>>
               ELSE /\ aborted' = TRUE
                    /\ j' = stepsToCompensate - 1
                    /\ pc' = "unwind"
                    /\ UNCHANGED panicMsg
    /\ UNCHANGED <<steps, toCompensate, returnedValuesFromFunc, err, i, result,
                   plays, fwdCalls, compCalls>>

\* compensateStep(j), first half: the StepCompensate event of record j.
CompensateStepLog ==
    /\ pc = "unwind"
    /\ j >= 0
    /\ IF j >= Len(steps)
       THEN /\ Panic("index out of range")
            /\ UNCHANGED storeVars
       ELSE \E e \in AppendLogErrors :
              /\ AppendLog(StepCompensateEvent(j), e)
              /\ IF checkErr(e)
                 THEN Panic(e)
                 ELSE /\ pc' = "compensate"
                      /\ UNCHANGED panicMsg
    /\ UNCHANGED <<steps, sagaVars, i, j, result, plays, fwdCalls, compCalls>>

\* What compensateStep does with the outcome of a compensating action:
\* the panic message, or "" to go on with the unwind.
CompensateOutcome(res) == isReturnError(res)

\* compensateStep(j), second half: the bound compensating action is called
\* with the context and the recorded values of record j.
CompensateStepCall ==
    /\ pc = "compensate"
    /\ LET params == CompensateParams(j)
           compensateFunc == toCompensate[j + 1]
           res == Call(compensateFunc, params)
       IN IF CallPanics(compensateFunc, params)
          THEN /\ Panic("reflect: Call with wrong number of input arguments")
               /\ UNCHANGED <<j, compCalls>>
          ELSE /\ compCalls' = Append(compCalls,
                       [step |-> j, func |-> compensateFunc, params |-> params])
               /\ IF isReturnErrorPanics(res)
                  THEN /\ Panic("reflect: call of reflect.Value.IsNil")
                       /\ UNCHANGED j
                  ELSE IF CompensateOutcome(res) # "nil"
                  THEN /\ Panic(CompensateOutcome(res))
                       /\ UNCHANGED j
                  ELSE /\ j' = j - 1
                       /\ pc' = "unwind"
                       /\ UNCHANGED panicMsg
    /\ UNCHANGED <<steps, sagaVars, storeVars, i, result, plays, fwdCalls>>

\* abort's loop is over: abort and execStep(i) return, Play moves to i+1.
AbortReturn ==
    /\ pc = "unwind"
    /\ j < 0
    /\ pc' = "loop"
    /\ i' = i + 1
    /\ UNCHANGED <<steps, sagaVars, storeVars, j, result, panicMsg, plays,
                   fwdCalls, compCalls>>

\* A Result that never carries an error.
PlayResultNil == [Err |-> "nil"]

\* The Result Play returns.
PlayResult == [Err |-> err]

\* Play, after the loop: the SagaComplete event and the Result.
PlayComplete ==
    /\ pc = "loop"
    /\ i >= Len(steps)
    /\ \E e \in AppendLogErrors :
         /\ AppendLog(SagaCompleteEvent, e)
         /\ IF checkErr(e)
            THEN /\ Panic(e)
                 /\ UNCHANGED result
            ELSE /\ result' = <<PlayResult>>
                 /\ pc' = "done"
                 /\ UNCHANGED panicMsg
    /\ UNCHANGED <<steps, sagaVars, i, j, plays, fwdCalls, compCalls>>

Next ==
    \/ \E step \in StepChoices : AddStep(step)
    \/ PlayStart
    \/ ExecStepAborted
    \/ ExecStepLog
    \/ ExecStepCall
    \/ Abort
    \/ CompensateStepLog
    \/ CompensateStepCall
    \/ AbortReturn
    \/ PlayComplete

Spec == Init /\ [][Next]_vars

\* ------------------------------------------------- vocabulary of the claims
\* The registration contract: a forward action is a func whose first
\* parameter is the context and whose last returned value is an error; a
\* compensating action is such a func returning exactly one error.
ValidForward(f) ==
    /\ f.kind = "func"
    /\ f.numIn >= 1
    /\ f.ctxFirst
    /\ Len(f.ret) >= 1
    /\ Last(f.ret).t = "error"

ValidCompensate(c) ==
    /\ c.kind = "func"
    /\ c.numIn >= 1
    /\ c.ctxFirst
    /\ Len(c.ret) = 1
    /\ c.ret[1].t = "error"

ValidStep(s) == ValidForward(s.Func) /\ ValidCompensate(s.CompensateFunc)

\* The caller's contract: the forward action takes the context alone and the
\* compensating action takes the context and the forward action's outputs.
ShapeOk(s) ==
    /\ s.Func.numIn = 1
    /\ s.CompensateFunc.numIn = Len(s.Func.ret)

ValidSaga == \A k \in 1..Len(steps) : ValidStep(steps[k])

WellFormedSaga == ValidSaga /\ \A k \in 1..Len(steps) : ShapeOk(steps[k])

\* Every registered forward action returns a nil error.
AllForwardSucceed ==
    \A k \in 1..Len(steps) :
        ValidForward(steps[k].Func) /\ Last(steps[k].Func.ret).v = "nil"

FirstRun == plays = 1
Returned == pc = "done"
Ended == pc \in {"done", "panicked"}
LogStoreOk == panicMsg # LogStoreError

\* A forward invocation that returned a non-nil trailing error.
FailedCall(c) ==
    Len(c.ret) > 0 /\ Last(c.ret).t = "error" /\ Last(c.ret).v # "nil"

FailedCalls == {k \in 1..Len(fwdCalls) : FailedCall(fwdCalls[k])}

\* The index of the first step whose forward action returned an error.
FirstFailedStep ==
    fwdCalls[CHOOSE k \in FailedCalls : \A m \in FailedCalls : k <= m].step

\* <<0, 1, ..., n-1>> and <<n-1, ..., 1, 0>>.
Up(n) == [k \in 1..n |-> k - 1]
Down(n) == [k \in 1..n |-> n - k]

FwdSteps == [k \in 1..Len(fwdCalls) |-> fwdCalls[k].step]
CompSteps == [k \in 1..Len(compCalls) |-> compCalls[k].step]

IsPrefix(s, t) == Len(s) <= Len(t) /\ s = SubSeq(t, 1, Len(s))

\* What a claim about the log stream sees of an event: its kind and, for a
\* step event, its step index.
EventView(l) ==
    <<l.Type,
      IF l.Type \in {LogTypeSagaStepExec, LogTypeSagaStepCompensate}
      THEN l.StepNumber ELSE <<>> >>

LogView == [k \in 1..Len(logs) |-> EventView(logs[k])]

ExpectedOkLog(n) ==
    << <<LogTypeStartSaga, <<>> >> >>
    \o [k \in 1..n |-> <<LogTypeSagaStepExec, <<k - 1>> >>]
    \o << <<LogTypeSagaComplete, <<>> >> >>

ExpectedAbortLog(f) ==
    << <<LogTypeStartSaga, <<>> >> >>
    \o [k \in 1..(f + 1) |-> <<LogTypeSagaStepExec, <<k - 1>> >>]
    \o << <<LogTypeSagaAbort, <<>> >> >>
    \o [k \in 1..(f + 1) |-> <<LogTypeSagaStepCompensate, <<f + 1 - k>> >>]
    \o << <<LogTypeSagaComplete, <<>> >> >>

\* The returned values of a forward action without the trailing error.
Outputs(ret) ==
    IF Len(ret) > 0 /\ Last(ret).t = "error"
    THEN SubSeq(ret, 1, Len(ret) - 1)
    ELSE ret

SignaturePanics ==
    {"registered object must be a func", "first argument must use context.ctx"}

\* ------------------------------------------------------------------ claims
\* C1: when the first Play of a well-formed saga has ended (the log store
\* never failing) and step i was the first forward action to return an
\* error, the compensating actions invoked are exactly those of records
\* i, i-1, ..., 0, once each and in that order.
C1_CompensateAllReverse ==
    (FirstRun /\ Ended /\ LogStoreOk /\ WellFormedSaga /\ FailedCalls # {})
        => CompSteps = Down(FirstFailedStep + 1)

\* C2: during the first Play the forward actions invoked are steps 0, 1, ...
\* in registration order, once each, the last of them being the first that
\* returned an error; and in every state where the aborted flag is set no
\* step (of this or a later Play) invokes a forward action.
C2_ForwardStopsAtFailure ==
    /\ [](FirstRun =>
            /\ FwdSteps = Up(Len(fwdCalls))
            /\ Len(fwdCalls) <= Len(steps)
            /\ (FailedCalls # {} => Len(fwdCalls) = FirstFailedStep + 1))
    /\ [][aborted => fwdCalls' = fwdCalls]_vars

\* A first Play that returned after step 1 of three failed: step 2 was never
\* reached.
C2_Witness ==
    /\ FirstRun /\ Returned /\ aborted
    /\ Len(steps) = 3
    /\ FwdSteps = <<0, 1>>
    /\ FailedCalls = {2}

\* C3: when the first Play of a well-formed saga has ended (the log store
\* never failing), step i failed and the compensating actions of steps i..0
\* all return errors, every one of the i+1 compensating actions was invoked
\* and Play returned a Result.
C3_UnwindSurvivesCompensateErrors ==
    (/\ FirstRun /\ Ended /\ LogStoreOk /\ WellFormedSaga
     /\ FailedCalls # {}
     /\ \A k \in 1..(FirstFailedStep + 1) :
            steps[k].CompensateFunc.ret[1].v # "nil")
        => (Len(compCalls) = FirstFailedStep + 1 /\ Returned /\ result # <<>>)

\* C4: with a well-formed saga and a log store that never fails, Play never
\* ends by a panic.
C4_PlayNeverPanics ==
    (WellFormedSaga /\ pc = "panicked") => panicMsg = LogStoreError

C6_AbortLogStream ==
    (FirstRun /\ Ended /\ LogStoreOk /\ WellFormedSaga /\ FailedCalls # {})
        => LogView = ExpectedAbortLog(FirstFailedStep)

C8_RoundTrip ==
    \A n \in 1..Len(compCalls) :
        \E m \in 1..Len(fwdCalls) :
            /\ fwdCalls[m].step = compCalls[n].step
            /\ compCalls[n].params = <<CtxV>> \o Outputs(fwdCalls[m].ret)

\* Two compensating actions of one run received two different values.
C8_Witness ==
    \E a, b \in 1..Len(compCalls) :
        /\ Len(compCalls[a].params) = 2
        /\ Len(compCalls[b].params) = 2
        /\ compCalls[a].params[2] = StrV("hello")
        /\ compCalls[b].params[2] = StrV("world")

\* C9: a change of the saga's step list appends a step that meets the
\* registration contract; a step that violates it is not appended.
C9_InvalidStepNotAppended ==
    [][steps' # steps => ValidStep(Last(steps'))]_vars

\* C10: Play never fails on a signature check.
C10_NoSignatureCheckInPlay ==
    ~(pc = "panicked" /\ panicMsg \in SignaturePanics)

\* The error the first failing forward invocation returned, or nil.
FirstForwardError ==
    IF FailedCalls = {} THEN "nil"
    ELSE Last(fwdCalls[CHOOSE k \in FailedCalls :
                           \A m \in FailedCalls : k <= m].ret).v

\* C11: the saga's execution error is at every moment the error of the first
\* forward invocation that returned one (nil when none did), no step
\* overwrites it once it is set, and the Result Play returns carries it.
C11_FirstForwardError ==
    /\ [](/\ err = FirstForwardError
          /\ (Returned => result = <<[Err |-> FirstForwardError]>>))
    /\ [][err # "nil" => err' = err]_vars

\* A first Play returned the error of its second step after compensating.
C11_Witness ==
    /\ FirstRun /\ Returned
    /\ result = <<[Err |-> "some error"]>>
    /\ Len(fwdCalls) = 2
    /\ Len(compCalls) = 2

\* C12: once an AppendLog call has returned an error, no forward action and
\* no compensating action is invoked and no log event is appended.
C12_LogFailureStopsRun ==
    [][appendFailed =>
          /\ fwdCalls' = fwdCalls
          /\ compCalls' = compCalls
          /\ logs' = logs]_vars

\* The append of a StepCompensate event failed in the middle of an unwind.
C12_Witness ==
    /\ appendFailed
    /\ pc = "panicked"
    /\ panicMsg = LogStoreError
    /\ aborted
    /\ Len(compCalls) = 1
    /\ Len(toCompensate) = 2

\* C13 as stated, for every Play: neither list of the Execution Record ever
\* holds more entries than there are registered steps.
C13_RecordBoundedEveryPlay ==
    /\ Len(toCompensate) <= Len(steps)
    /\ Len(returnedValuesFromFunc) <= Len(steps)

\* C13: up to the end of the saga's first Play, neither list of the
\* Execution Record holds more entries than there are registered steps.
C13_RecordBounded ==
    plays <= 1 =>
        /\ Len(toCompensate) <= Len(steps)
        /\ Len(returnedValuesFromFunc) <= Len(steps)

\* The record of a first Play holds one entry for each of three steps.
C13_Witness ==
    /\ FirstRun
    /\ Len(steps) = 3
    /\ Len(toCompensate) = 3
    /\ Len(returnedValuesFromFunc) = 3

\* The positions of the events of one kind in the log.
Positions(type) == {p \in 1..Len(logs) : logs[p].Type = type}

\* C14: the log holds one SagaAbort event when the saga is aborted and none
\* otherwise; the event directly follows the StepExec event of the failing
\* step i, precedes every StepCompensate event, and carries i+1, the number
\* of entries of the Execution Record.
C14_OneAbortEvent ==
    /\ Cardinality(Positions(LogTypeSagaAbort)) = (IF aborted THEN 1 ELSE 0)
    /\ \A p \in Positions(LogTypeSagaAbort) :
          /\ FailedCalls # {}
          /\ p > 1
          /\ logs[p - 1].Type = LogTypeSagaStepExec
          /\ logs[p - 1].StepNumber = <<FirstFailedStep>>
          /\ logs[p].StepNumber = <<FirstFailedStep + 1>>
          /\ logs[p].StepNumber = <<Len(toCompensate)>>
          /\ \A q \in Positions(LogTypeSagaStepCompensate) : q > p

\* A returned Play whose second step of three failed: SagaAbort carries 2 and
\* two StepCompensate events follow it.
C14_Witness ==
    /\ Returned /\ aborted
    /\ Len(steps) = 3
    /\ \E p \in Positions(LogTypeSagaAbort) : logs[p].StepNumber = <<2>>
    /\ Cardinality(Positions(LogTypeSagaStepCompensate)) = 2

\* The events of one kind, in log order.
EventsOf(type) == SelectSeq(logs, LAMBDA l : l.Type = type)

\* The event is the one announcing step k under its registered name.
Announces(ev, type, k) ==
    /\ ev.Type = type
    /\ ev.StepNumber = <<k>>
    /\ ev.StepName = <<steps[k + 1].Name>>

\* C15: the n-th forward invocation has the n-th StepExec event of the log
\* as its own, carrying its step index and step name; at most the last
\* StepExec event has no invocation (yet); and a forward invocation happens
\* only while the last event of the log is the StepExec event of its step,
\* and appends nothing itself.
C15_StepExecBeforeForward ==
    /\ [](LET E == EventsOf(LogTypeSagaStepExec)
          IN /\ Len(fwdCalls) <= Len(E)
             /\ Len(E) <= Len(fwdCalls) + 1
             /\ \A n \in 1..Len(fwdCalls) :
                    Announces(E[n], LogTypeSagaStepExec, fwdCalls[n].step))
    /\ [][fwdCalls' # fwdCalls =>
            /\ Len(fwdCalls') = Len(fwdCalls) + 1
            /\ logs' = logs
            /\ Len(logs) > 0
            /\ Announces(Last(logs), LogTypeSagaStepExec, Last(fwdCalls').step)]_vars

\* Three differently named steps were invoked, each after its own event.
C15_Witness ==
    /\ FirstRun
    /\ Len(fwdCalls) = 3
    /\ Len(EventsOf(LogTypeSagaStepExec)) = 3
    /\ Cardinality({steps[k].Name : k \in 1..3}) = 3

\* C16: the n-th compensating invocation has the n-th StepCompensate event of
\* the log as its own, carrying its record index and the name of that step;
\* at most the last StepCompensate event has no invocation (yet); and a
\* compensating invocation happens only while the last event of the log is
\* the StepCompensate event of its record, and appends nothing itself.
C16_StepCompensateBeforeCompensation ==
    /\ [](LET E == EventsOf(LogTypeSagaStepCompensate)
          IN /\ Len(compCalls) <= Len(E)
             /\ Len(E) <= Len(compCalls) + 1
             /\ \A n \in 1..Len(compCalls) :
                    Announces(E[n], LogTypeSagaStepCompensate, compCalls[n].step))
    /\ [][compCalls' # compCalls =>
            /\ Len(compCalls') = Len(compCalls) + 1
            /\ logs' = logs
            /\ Len(logs) > 0
            /\ Announces(Last(logs), LogTypeSagaStepCompensate,
                         Last(compCalls').step)]_vars

\* Three differently named steps were compensated, each after its own event.
C16_Witness ==
    /\ Len(compCalls) = 3
    /\ Len(EventsOf(LogTypeSagaStepCompensate)) = 3
    /\ Cardinality({steps[k].Name : k \in 1..3}) = 3

Compensating == pc = "compensate" \/ (pc = "unwind" /\ j >= 0)

\* C18: up to the end of the saga's first Play, record position k holds the
\* compensating action of registered step k; while compensation of record j
\* is under way j is an index of the step list and of the record; and every
\* compensating invocation called the compensating action of the step its
\* StepCompensate event names.
C18_RecordMatchesSteps ==
    plays <= 1 =>
        /\ \A k \in 1..Len(toCompensate) :
              /\ k <= Len(steps)
              /\ toCompensate[k] = steps[k].CompensateFunc
        /\ (Compensating => (j < Len(steps) /\ j < Len(toCompensate)))
        /\ \A n \in 1..Len(compCalls) :
              /\ compCalls[n].step < Len(steps)
              /\ compCalls[n].func = steps[compCalls[n].step + 1].CompensateFunc
              /\ Announces(EventsOf(LogTypeSagaStepCompensate)[n],
                           LogTypeSagaStepCompensate, compCalls[n].step)

\* The compensating action of the first of three differently named steps is
\* about to be called, after those of the third and the second.
C18_Witness ==
    /\ FirstRun
    /\ pc = "compensate"
    /\ j = 0
    /\ Len(compCalls) = 2
    /\ Cardinality({steps[k].Name : k \in 1..3}) = 3
    /\ steps[1].CompensateFunc # steps[1].Func

\* C19: from the start of a second Play of an aborted saga on, no forward and
\* no compensating action is invoked, the execution error stays the same, the
\* only events appended are the StartSaga event of a Play call and
\* SagaComplete, and the Result such a Play returns carries the execution
\* error, its StartSaga and SagaComplete events ending the log.
C19_SecondPlayOfAbortedSaga ==
    /\ [][(plays' >= 2 /\ aborted) =>
            /\ fwdCalls' = fwdCalls
            /\ compCalls' = compCalls
            /\ err' = err
            /\ aborted'
            /\ (logs' # logs =>
                  \/ (plays' # plays /\ logs' = Append(logs, StartSagaEvent))
                  \/ (plays' = plays /\ logs' = Append(logs, SagaCompleteEvent)))]_vars
    /\ []((plays >= 2 /\ aborted /\ Returned) =>
            /\ err # "nil"
            /\ result = <<[Err |-> err]>>
            /\ Len(logs) >= 3
            /\ logs[Len(logs) - 2] = SagaCompleteEvent
            /\ logs[Len(logs) - 1] = StartSagaEvent
            /\ logs[Len(logs)] = SagaCompleteEvent)

\* A second Play has returned on a saga whose first run compensated two steps.
C19_Witness ==
    /\ plays = 2 /\ Returned /\ aborted
    /\ Len(compCalls) = 2
    /\ Len(steps) = 3
    /\ result = <<[Err |-> "hello"]>>
====
